---- MODULE Spec2Model ----
(***************************************************************************)
(* Model of the two project-file mutators of the repository:              *)
(*   add_missing_files.py  (script "v1")                                   *)
(*   add_files_v2.py       (script "v2")                                   *)
(* Both read GitFlow.xcodeproj/project.pbxproj, plan the files to add,     *)
(* insert lines at textual anchors and write the file back.                *)
(*                                                                         *)
(* The Document text is kept as the ordered parts the scripts' anchors     *)
(* can see: the PBXBuildFile section and its end marker, the               *)
(* PBXFileReference section and its end marker, the PBXGroup section (the  *)
(* group definitions in text order, each with its children lines) and its  *)
(* end marker, and the build phases in text order, each with its           *)
(* "files = (" list.  Ids and names are sequences of string atoms, so that *)
(* "is a substring of" and "ends with" are computed, not assumed.  It is   *)
(* assumed that no group id is the tail of a build-file or file-reference  *)
(* id and that a file name only occurs inside name tokens of the text.     *)
(***************************************************************************)
EXTENDS Integers, Sequences, FiniteSets, TLC

\* Number of consecutive invocations of a script that are explored.
MaxRuns == 2

----------------------------------------------------------------------------
(* Names, ids and paths *)

NameA  == <<"A">>
NameBA == <<"B", "A">>
NameC  == <<"C">>
NameZ  == <<"Z">>
NameY  == <<"Y">>

GidMain  == <<"M">>
GidS     == <<"S">>
GidV     == <<"V">>
GidPV    == <<"P", "V">>
GidGhost == <<"G">>
GidN     == <<"N">>
GidXS    == <<"X", "S">>

\* get_filename: the last segment of a "/"-separated path
get_filename(path) == path[Len(path)]

\* Python's "s in t" on strings
IsSubstring(s, t) ==
    \E i \in 1..(Len(t) - Len(s) + 1) : SubSeq(t, i, i + Len(s) - 1) = s

\* a regex that starts with a literal id matches wherever a token ends with it
EndsWith(x, g) ==
    /\ Len(x) >= Len(g)
    /\ SubSeq(x, Len(x) - Len(g) + 1, Len(x)) = g

Digits == <<"0", "1", "2", "3", "4", "5", "6", "7", "8", "9">>

RECURSIVE Dec(_)
Dec(n) == IF n < 10 THEN <<Digits[n + 1]>>
          ELSE Dec(n \div 10) \o <<Digits[(n % 10) + 1]>>

RECURSIVE PadZero(_, _)
PadZero(s, w) == IF Len(s) >= w THEN s ELSE PadZero(<<"0">> \o s, w)

\* f"{counter:03d}"
Fmt03(n) == PadZero(Dec(n), 3)

CounterStartV1 == 100
CounterStartV2 == 200

CounterStart(s) == IF s = "v1" THEN CounterStartV1 ELSE CounterStartV2

\* build_id = f"NEW{counter:03d}" / f"ADD{counter:03d}"
BuildId(s, n) == (IF s = "v1" THEN <<"NEW">> ELSE <<"ADD">>) \o Fmt03(n)

\* file_ref_id = f"NEWFILE{counter:03d}" / file_id = f"ADDFILE{counter:03d}"
FileId(s, n) == (IF s = "v1" THEN <<"NEWFILE">> ELSE <<"ADDFILE">>) \o Fmt03(n)

----------------------------------------------------------------------------
(* The Document *)

Line(id, name) == [id |-> id, name |-> name]

BuildLine(id, ref, name) == [id |-> id, ref |-> ref, name |-> name]

GroupDef(id, name, path, children) ==
    [id |-> id, name |-> name, path |-> path, children |-> children]

Phase(kind, files) == [kind |-> kind, files |-> files]

Range(s) == {s[i] : i \in DOMAIN s}

\* every name token of the text: the comments and path/name fields
TextNames(doc) ==
    {b.name : b \in Range(doc.build)}
    \cup {r.name : r \in Range(doc.refs)}
    \cup {g.name : g \in Range(doc.groups)}
    \cup {g.path : g \in Range(doc.groups)}
    \cup UNION {{c.name : c \in Range(g.children)} : g \in Range(doc.groups)}
    \cup UNION {{f.name : f \in Range(p.files)} : p \in Range(doc.phases)}

\* a faulty membership test: only the names of the file references are compared
InContentRefsOnly(filename, doc) == \E r \in Range(doc.refs) : r.name = filename

\* "filename in content"
InContent(filename, doc) == \E n \in TextNames(doc) : IsSubstring(filename, n)

----------------------------------------------------------------------------
(* Documents the scripts are started on *)

ExistingBuild(withC) ==
    <<BuildLine(<<"B1">>, <<"F1">>, NameZ), BuildLine(<<"B2">>, <<"F2">>, NameY)>>
    \o (IF withC THEN <<BuildLine(<<"B3">>, <<"F3">>, NameC)>> ELSE <<>>)

ExistingRefs(withC) ==
    <<Line(<<"F1">>, NameZ), Line(<<"F2">>, NameY)>>
    \o (IF withC THEN <<Line(<<"F3">>, NameC)>> ELSE <<>>)

ExistingSources(withC) ==
    <<Line(<<"B1">>, NameZ), Line(<<"B2">>, NameY)>>
    \o (IF withC THEN <<Line(<<"B3">>, NameC)>> ELSE <<>>)

\* the PBXGroup section: the main group lists its sub-groups, then the sub-groups
ExistingGroups(withC, withViews) ==
    << GroupDef(GidMain, <<"Main">>, <<"Main">>,
                <<Line(GidS, <<"Services">>)>>
                \o (IF withViews THEN <<Line(GidV, <<"Views">>)>> ELSE <<>>)
                \o <<Line(GidPV, <<"Preview">>)>>),
       GroupDef(GidS, <<"Services">>, <<"Services">>,
                <<Line(<<"F1">>, NameZ), Line(<<"F2">>, NameY)>>),
       GroupDef(GidPV, <<"Preview">>, <<"Preview">>,
                IF withC THEN <<Line(<<"F3">>, NameC)>> ELSE <<>>) >>
    \o (IF withViews THEN <<GroupDef(GidV, <<"Views">>, <<"Views">>, <<>>)>> ELSE <<>>)

PhaseLayouts(withC) ==
    [ sources   |-> <<Phase("Sources", ExistingSources(withC))>>,
      frameworks |-> <<Phase("Frameworks", <<>>),
                       Phase("Sources", ExistingSources(withC))>>,
      none      |-> <<>> ]

\* (build-file end marker, file-reference end marker, group end marker, phases,
\*  the Views group exists)
DocShapes ==
    { <<TRUE,  TRUE,  TRUE,  "sources",    TRUE>>,
      <<TRUE,  TRUE,  TRUE,  "sources",    FALSE>>,
      <<FALSE, TRUE,  TRUE,  "sources",    TRUE>>,
      <<TRUE,  FALSE, TRUE,  "sources",    TRUE>>,
      <<TRUE,  TRUE,  FALSE, "sources",    TRUE>>,
      <<TRUE,  TRUE,  TRUE,  "frameworks", TRUE>>,
      <<TRUE,  TRUE,  TRUE,  "none",       TRUE>>,
      <<FALSE, FALSE, TRUE,  "none",       TRUE>>,
      <<FALSE, FALSE, FALSE, "none",       TRUE>> }

MakeDoc(shape, withC) ==
    [ buildEnd |-> shape[1],
      build    |-> ExistingBuild(withC),
      refEnd   |-> shape[2],
      refs     |-> ExistingRefs(withC),
      groupEnd |-> shape[3],
      groups   |-> ExistingGroups(withC, shape[5]),
      phases   |-> PhaseLayouts(withC)[shape[4]] ]

InitDocs == {MakeDoc(shape, withC) : shape \in DocShapes, withC \in BOOLEAN}

----------------------------------------------------------------------------
(* The static entry lists (MISSING_FILES / FILES_TO_ADD, NEW_GROUPS_AND_FILES) *)

Entry(path, group) == [path |-> path, group |-> group]

NewGroup(id, name, path, parent, files) ==
    [id |-> id, name |-> name, path |-> path, parent |-> parent, files |-> files]

Config(files, newGroups) == [files |-> files, newGroups |-> newGroups]

PathIn(dir, name) == <<dir, name>>

NewGroupN(parent, names) ==
    NewGroup(GidN, <<"New">>, <<<<"Services">>, <<"New">>>>, parent,
             [i \in DOMAIN names |-> <<<<"Services">>, <<"New">>, names[i]>>])

EntryLists ==
    << Config(<<Entry(PathIn(<<"Services">>, NameA), GidS)>>, <<>>),
       Config(<<Entry(PathIn(<<"Services">>, NameA), GidS),
                Entry(PathIn(<<"Views">>, NameA), GidV)>>, <<>>),
       Config(<<Entry(PathIn(<<"Ghost">>, NameA), GidGhost),
                Entry(PathIn(<<"Services">>, NameC), GidS)>>, <<>>),
       Config(<<Entry(PathIn(<<"Views">>, NameBA), GidV),
                Entry(PathIn(<<"Services">>, NameA), GidS)>>, <<>>),
       Config(<<>>, <<NewGroupN(GidS, <<NameA>>)>>),
       Config(<<>>, <<NewGroupN(GidS, <<NameA, NameC>>)>>),
       Config(<<>>, <<NewGroupN(GidGhost, <<NameA>>)>>),
       Config(<<Entry(PathIn(<<"Services">>, NameA), GidS)>>,
              <<NewGroup(GidXS, <<"Extra">>, <<<<"Services">>, <<"Extra">>>>, GidS,
                         << <<<<"Services">>, <<"Extra">>, NameA>> >>)>>),
       Config(<<Entry(PathIn(<<"New">>, NameC), GidN)>>,
              <<NewGroupN(GidV, <<NameA>>)>>) >>

\* add_missing_files.py has no NEW_GROUPS_AND_FILES
Accepts(s, cfg) == s = "v2" \/ cfg.newGroups = <<>>

----------------------------------------------------------------------------
(* State *)

VARIABLES
    disk,                   \* the text of PROJECT_FILE
    pc,                     \* position of main()
    script,                 \* which script runs: "v1" or "v2"
    input,                  \* index in EntryLists of the static lists of this run
    runs,                   \* invocations started so far
    prevScript, prevInput,  \* the script and lists of the previous invocation
    prevAdded,              \* files the previous invocation planned
    pre,                    \* the text of PROJECT_FILE when this run read it
    writes,                 \* f.write calls of this run
    content,                \* main(): content
    counter,                \* main(): counter
    idx,                    \* position of the loops over the static lists
    build_entries,          \* build_entries / build_file_entries
    file_ref_entries,
    source_entries,         \* source_entries / sources_entries
    group_additions,        \* group_additions / group_updates (insertion-ordered)
    new_group_defs,
    parent_group_additions, \* insertion-ordered dict
    skipped,                \* "Skipping ... - already exists" lines
    warnings                \* "Warning: Could not ..." lines

planVars == <<counter, build_entries, file_ref_entries, source_entries,
              group_additions, new_group_defs, parent_group_additions, skipped>>

runVars == <<script, input, runs, prevScript, prevInput, prevAdded, pre>>

vars == <<disk, pc, writes, content, idx, warnings, planVars, runVars>>

cfg == EntryLists[input]

----------------------------------------------------------------------------
(* Planning *)

\* d[key].append(line) on an insertion-ordered dict, creating the key when new
DictAppend(d, key, line) ==
    IF \E i \in DOMAIN d : d[i].key = key
    THEN [i \in DOMAIN d |->
            IF d[i].key = key THEN [d[i] EXCEPT !.lines = Append(@, line)] ELSE d[i]]
    ELSE Append(d, [key |-> key, lines |-> <<line>>])

\* the position after entry i of the first loop
AfterFiles(s, c, i) ==
    IF i <= Len(c.files) THEN "plan_files"
    ELSE IF s = "v2" /\ c.newGroups # <<>> THEN "plan_groups"
    ELSE "check"

\* the position after group i of the second loop
AfterGroups(c, i) == IF i <= Len(c.newGroups) THEN "plan_groups" ELSE "check"

\* one pass of the loop body that allocates the id pair and builds the three lines
PlanOne(acc, filename, doc, s) ==
    IF InContent(filename, doc)
    THEN [acc EXCEPT !.skipped = Append(@, filename), !.added = FALSE]
    ELSE [acc EXCEPT
            !.build   = Append(@, BuildLine(BuildId(s, acc.counter),
                                            FileId(s, acc.counter), filename)),
            !.refs    = Append(@, Line(FileId(s, acc.counter), filename)),
            !.sources = Append(@, Line(BuildId(s, acc.counter), filename)),
            !.file_id = FileId(s, acc.counter),
            !.counter = acc.counter + 1,
            !.added   = TRUE]

Acc == [counter |-> counter, build |-> build_entries, refs |-> file_ref_entries,
        sources |-> source_entries, skipped |-> skipped,
        file_id |-> <<>>, added |-> FALSE]

\* the inner loop over the files of one new group
RECURSIVE PlanGroupFiles(_, _, _, _, _)
PlanGroupFiles(st, files, i, doc, s) ==
    IF i > Len(files) THEN st
    ELSE LET filename == get_filename(files[i])
             acc == PlanOne(st.acc, filename, doc, s)
         IN  PlanGroupFiles(
                 [acc |-> acc,
                  file_refs_for_group |->
                      IF acc.added
                      THEN Append(st.file_refs_for_group, Line(acc.file_id, filename))
                      ELSE st.file_refs_for_group],
                 files, i + 1, doc, s)

\* group_path.split("/")[-1]
folder_name(group_path) == group_path[Len(group_path)]

----------------------------------------------------------------------------
(* Insertions *)

\* content.replace(marker, insert + marker) / re.sub(marker, insert + r'\1', content)
InsertBefore(markerPresent, section, lines) ==
    IF markerPresent THEN section \o lines ELSE section

\* a faulty replacement: the text behind the opening token is not put back
InsertChildrenV2Drop(children, lines) == lines

\* add_files_v2.py: r'\1\2' + lines + r'\2' right after "children = (\n"
InsertChildrenV2(children, lines) == lines \o children

\* add_missing_files.py: group(1) + group(2) + lines + '\n' + group(3)
InsertChildrenV1(children, lines) == children \o lines

\* add_files_v2.py: the group headers the pattern matches
MatchesV2(groups, gid) == {i \in DOMAIN groups : EndsWith(groups[i].id, gid)}

\* add_missing_files.py: the pattern starts at the leftmost tail of a token that is
\* followed by a comment (a group header or a child line), runs lazily to the next
\* group header and ends at that group's ");" - the scan resumes behind it
RECURSIVE MatchesV1(_, _, _)
MatchesV1(groups, gid, k) ==
    IF k > Len(groups) THEN {}
    ELSE IF EndsWith(groups[k].id, gid)
         THEN {k} \cup MatchesV1(groups, gid, k + 1)
    ELSE IF \E c \in Range(groups[k].children) : EndsWith(c.id, gid)
         THEN IF k + 1 <= Len(groups)
              THEN {k + 1} \cup MatchesV1(groups, gid, k + 2)
              ELSE {}
    ELSE MatchesV1(groups, gid, k + 1)

Matches(s, groups, gid) ==
    IF s = "v1" THEN MatchesV1(groups, gid, 1) ELSE MatchesV2(groups, gid)

InsertChildren(s, children, lines) ==
    IF s = "v1" THEN InsertChildrenV1(children, lines)
    ELSE InsertChildrenV2(children, lines)

\* re.sub of one group pattern over the whole text
SubGroup(s, groups, gid, lines) ==
    LET hit == Matches(s, groups, gid)
    IN  [i \in DOMAIN groups |->
            IF i \in hit
            THEN [groups[i] EXCEPT !.children = InsertChildren(s, @, lines)]
            ELSE groups[i]]

\* the loop over a dict of additions: substitute, or warn when nothing changed
RECURSIVE AddAll(_, _, _, _, _)
AddAll(s, st, additions, i, kind) ==
    IF i > Len(additions) THEN st
    ELSE LET new_groups == SubGroup(s, st.groups, additions[i].key, additions[i].lines)
         IN  AddAll(s,
                    IF new_groups # st.groups
                    THEN [st EXCEPT !.groups = new_groups]
                    ELSE [st EXCEPT !.warnings =
                             Append(@, [kind |-> kind, group |-> additions[i].key])],
                    additions, i + 1, kind)

\* add_files_v2.py: count=1, the first "\t\t\tfiles = (\n" list of the text
\* add_missing_files.py: every "files = (\n" list of the text
SourcesTargets(s, phases) ==
    IF s = "v1" THEN DOMAIN phases
    ELSE IF phases = <<>> THEN {} ELSE {1}

add_sources(s, phases, entries) ==
    [i \in DOMAIN phases |->
        IF i \in SourcesTargets(s, phases)
        THEN [phases[i] EXCEPT !.files = @ \o entries]
        ELSE phases[i]]

\* a faulty early return: the test is inverted
NothingPlannedInverted(entries) == entries # <<>>

\* "if not build_entries:"
NothingPlanned(entries) == entries = <<>>

\* the order of the insertion steps of each script
AfterInsert(s)  == IF s = "v1" THEN "sources" ELSE "groups"
AfterGroupsStep(s) == IF s = "v1" THEN "write" ELSE "parents"
AfterSources(s) == IF s = "v1" THEN "groups" ELSE "write"

----------------------------------------------------------------------------
(* main() *)

Init ==
    /\ disk \in InitDocs
    /\ pc = "start"
    /\ script = "v1"
    /\ input = 1
    /\ runs = 0
    /\ prevScript = "none"
    /\ prevInput = 0
    /\ prevAdded = 0
    /\ pre = disk
    /\ writes = 0
    /\ content = disk
    /\ counter = CounterStartV1
    /\ idx = 1
    /\ build_entries = <<>>
    /\ file_ref_entries = <<>>
    /\ source_entries = <<>>
    /\ group_additions = <<>>
    /\ new_group_defs = <<>>
    /\ parent_group_additions = <<>>
    /\ skipped = <<>>
    /\ warnings = <<>>

\* the script is invoked: it reads the file and initialises its lists
Read(s, i) ==
    /\ pc \in {"start", "done"}
    /\ runs < MaxRuns
    /\ Accepts(s, EntryLists[i])
    /\ runs' = runs + 1
    /\ prevScript' = IF runs = 0 THEN "none" ELSE script
    /\ prevInput' = IF runs = 0 THEN 0 ELSE input
    /\ prevAdded' = Len(build_entries)
    /\ script' = s
    /\ input' = i
    /\ pre' = disk
    /\ content' = disk
    /\ writes' = 0
    /\ counter' = CounterStart(s)
    /\ idx' = 1
    /\ build_entries' = <<>>
    /\ file_ref_entries' = <<>>
    /\ source_entries' = <<>>
    /\ group_additions' = <<>>
    /\ new_group_defs' = <<>>
    /\ parent_group_additions' = <<>>
    /\ skipped' = <<>>
    /\ warnings' = <<>>
    /\ pc' = AfterFiles(s, EntryLists[i], 1)
    /\ UNCHANGED disk

\* one iteration of the loop over MISSING_FILES / FILES_TO_ADD
PlanFile ==
    /\ pc = "plan_files"
    /\ LET e == cfg.files[idx]
           filename == get_filename(e.path)
           acc == PlanOne(Acc, filename, content, script)
       IN  /\ counter' = acc.counter
           /\ build_entries' = acc.build
           /\ file_ref_entries' = acc.refs
           /\ source_entries' = acc.sources
           /\ skipped' = acc.skipped
           /\ group_additions' =
                  IF acc.added
                  THEN DictAppend(group_additions, e.group, Line(acc.file_id, filename))
                  ELSE group_additions
    /\ idx' = IF AfterFiles(script, cfg, idx + 1) = "plan_files" THEN idx + 1 ELSE 1
    /\ pc' = AfterFiles(script, cfg, idx + 1)
    /\ UNCHANGED <<disk, writes, content, warnings, new_group_defs,
                   parent_group_additions, runVars>>

\* one iteration of the loop over NEW_GROUPS_AND_FILES
PlanNewGroup ==
    /\ pc = "plan_groups"
    /\ LET g == cfg.newGroups[idx]
           st == PlanGroupFiles([acc |-> Acc, file_refs_for_group |-> <<>>],
                                g.files, 1, content, script)
       IN  /\ counter' = st.acc.counter
           /\ build_entries' = st.acc.build
           /\ file_ref_entries' = st.acc.refs
           /\ source_entries' = st.acc.sources
           /\ skipped' = st.acc.skipped
           /\ IF st.file_refs_for_group # <<>>
              THEN /\ new_group_defs' =
                        Append(new_group_defs,
                               GroupDef(g.id, g.name, folder_name(g.path),
                                        st.file_refs_for_group))
                   /\ parent_group_additions' =
                        DictAppend(parent_group_additions, g.parent,
                                   Line(g.id, g.name))
              ELSE UNCHANGED <<new_group_defs, parent_group_additions>>
    /\ idx' = idx + 1
    /\ pc' = AfterGroups(cfg, idx + 1)
    /\ UNCHANGED <<disk, writes, content, warnings, group_additions, runVars>>

\* "No files to add!": return without writing
NothingToAdd ==
    /\ pc = "check"
    /\ NothingPlanned(build_entries)
    /\ pc' = "done"
    /\ UNCHANGED <<disk, writes, content, idx, warnings, planVars, runVars>>

\* the three insertions before the section end markers
InsertSections ==
    /\ pc = "check"
    /\ ~NothingPlanned(build_entries)
    /\ content' =
         [content EXCEPT
            !.build  = InsertBefore(content.buildEnd, @, build_entries),
            !.refs   = InsertBefore(content.refEnd, @, file_ref_entries),
            !.groups = IF new_group_defs # <<>>
                       THEN InsertBefore(content.groupEnd, @, new_group_defs)
                       ELSE @]
    /\ pc' = AfterInsert(script)
    /\ UNCHANGED <<disk, writes, idx, warnings, planVars, runVars>>

\* the loop "Add files to existing groups"
AddToGroups ==
    /\ pc = "groups"
    /\ LET st == AddAll(script, [groups |-> content.groups, warnings |-> warnings],
                        group_additions, 1, "group")
       IN  /\ content' = [content EXCEPT !.groups = st.groups]
           /\ warnings' = st.warnings
    /\ pc' = AfterGroupsStep(script)
    /\ UNCHANGED <<disk, writes, idx, planVars, runVars>>

\* the loop "Add new groups to parent groups"
AddToParents ==
    /\ pc = "parents"
    /\ LET st == AddAll(script, [groups |-> content.groups, warnings |-> warnings],
                        parent_group_additions, 1, "parent")
       IN  /\ content' = [content EXCEPT !.groups = st.groups]
           /\ warnings' = st.warnings
    /\ pc' = "sources"
    /\ UNCHANGED <<disk, writes, idx, planVars, runVars>>

\* "Add to sources build phase"
AddSources ==
    /\ pc = "sources"
    /\ content' = [content EXCEPT !.phases = add_sources(script, @, source_entries)]
    /\ pc' = AfterSources(script)
    /\ UNCHANGED <<disk, writes, idx, warnings, planVars, runVars>>

\* with open(PROJECT_FILE, 'w') as f: f.write(content)
Write ==
    /\ pc = "write"
    /\ disk' = content
    /\ writes' = writes + 1
    /\ pc' = "done"
    /\ UNCHANGED <<content, idx, warnings, planVars, runVars>>

Next ==
    \/ \E s \in {"v1", "v2"}, i \in DOMAIN EntryLists : Read(s, i)
    \/ PlanFile
    \/ PlanNewGroup
    \/ NothingToAdd
    \/ InsertSections
    \/ AddToGroups
    \/ AddToParents
    \/ AddSources
    \/ Write

Spec == Init /\ [][Next]_vars

----------------------------------------------------------------------------
(* Vocabulary of the properties *)

Done == pc = "done" /\ runs > 0

IsPrefix(a, b) == Len(a) <= Len(b) /\ SubSeq(b, 1, Len(a)) = a

IsSuffix(a, b) == Len(a) <= Len(b) /\ SubSeq(b, Len(b) - Len(a) + 1, Len(b)) = a

\* how many records of the Document define the id
DefCount(doc, id) ==
    Cardinality({i \in DOMAIN doc.build : doc.build[i].id = id})
    + Cardinality({i \in DOMAIN doc.refs : doc.refs[i].id = id})
    + Cardinality({i \in DOMAIN doc.groups : doc.groups[i].id = id})

\* how many BuildFileRecords reference the FileReference id
BuildRefCount(doc, fid) ==
    Cardinality({i \in DOMAIN doc.build : doc.build[i].ref = fid})

\* the places of the build-phase lists that hold the BuildFileRecord id
PhaseSlots(doc, bid) ==
    UNION {{<<i, j>> : j \in {k \in DOMAIN doc.phases[i].files :
                                    doc.phases[i].files[k].id = bid}} :
           i \in DOMAIN doc.phases}

\* the places of the groups' child sequences that hold the id
ChildSlots(doc, id) ==
    UNION {{<<i, j>> : j \in {k \in DOMAIN doc.groups[i].children :
                                    doc.groups[i].children[k].id = id}} :
           i \in DOMAIN doc.groups}

GroupIds(doc) == {g.id : g \in Range(doc.groups)}

\* the display names of all entries of the static lists the script reads
EntryNames(s, c) ==
    {get_filename(e.path) : e \in Range(c.files)}
    \cup (IF s = "v2"
          THEN UNION {{get_filename(f) : f \in Range(g.files)} : g \in Range(c.newGroups)}
          ELSE {})

RECURSIVE NewGroupFileCount(_, _)
NewGroupFileCount(groups, i) ==
    IF i > Len(groups) THEN 0
    ELSE Len(groups[i].files) + NewGroupFileCount(groups, i + 1)

\* the number of entries the two loops visit
EntryCount(s, c) ==
    Len(c.files) + (IF s = "v2" THEN NewGroupFileCount(c.newGroups, 1) ELSE 0)

\* the three section end markers occur in the Document
MarkersPresent(doc) == doc.buildEnd /\ doc.refEnd /\ doc.groupEnd

\* the Document has exactly one build-phase file list, the Sources list
OnlySourcesList(doc) == Len(doc.phases) = 1 /\ doc.phases[1].kind = "Sources"

\* the Document has a place where every planned name is written
HasNameAnchor(doc) == doc.buildEnd \/ doc.refEnd \/ doc.phases # <<>>

\* this run repeats the previous one
Repeated == Done /\ runs >= 2 /\ prevScript = script /\ prevInput = input

\* the ids this run synthesized
SynthIds ==
    {b.id : b \in Range(build_entries)}
    \cup {r.id : r \in Range(file_ref_entries)}
    \cup {g.id : g \in Range(new_group_defs)}

\* the group ids this run wants to give children to
TargetIds ==
    {a.key : a \in Range(group_additions)}
    \cup {a.key : a \in Range(parent_group_additions)}

----------------------------------------------------------------------------
(* C1 - idempotence across runs *)

----------------------------------------------------------------------------
(* C2 - a missing section marker *)

\* the end marker of a section this run inserts into does not occur in the text
MarkerMissing ==
    \/ ~pre.buildEnd
    \/ ~pre.refEnd
    \/ (new_group_defs # <<>> /\ ~pre.groupEnd)

\* C2: when an entry survives and a required end marker is missing, the run
\* writes nothing and the file is unchanged.
C2_AbortOnMissingMarker ==
    (Done /\ build_entries # <<>> /\ MarkerMissing) =>
        /\ writes = 0
        /\ disk = pre

----------------------------------------------------------------------------
(* C3 - referential completeness *)

\* C3: after a run that wrote a Document with all section end markers and at
\* least one file list, each synthesized FileReference id is referenced by exactly
\* one BuildFileRecord and each synthesized BuildFileRecord id occurs in exactly
\* one build-phase file list, the Sources list.
C3_ReferentialCompleteness ==
    (Done /\ writes = 1 /\ MarkersPresent(pre) /\ pre.phases # <<>>) =>
        /\ \A r \in Range(file_ref_entries) : BuildRefCount(disk, r.id) = 1
        /\ \A b \in Range(build_entries) :
              /\ Cardinality(PhaseSlots(disk, b.id)) = 1
              /\ \A slot \in PhaseSlots(disk, b.id) :
                    disk.phases[slot[1]].kind = "Sources"

----------------------------------------------------------------------------
(* C4 - no duplicate ids *)

\* C4: after a run that wrote, every synthesized id was not defined in the file
\* the run read, is defined at most once in the file it wrote, and the
\* synthesized records carry pairwise distinct ids.
C4_NoDuplicateIds ==
    (Done /\ writes = 1) =>
        /\ \A id \in SynthIds : DefCount(pre, id) = 0 /\ DefCount(disk, id) <= 1
        /\ Cardinality(SynthIds) =
              Len(build_entries) + Len(file_ref_entries) + Len(new_group_defs)

----------------------------------------------------------------------------
(* C5 - monotonic superset, position of the new lines *)

\* C5 (as stated): every group that existed and the Sources list keep their
\* elements in order, and every new line comes after all of them.
C5_AppendedAtEnd ==
    Done =>
        /\ \A i \in DOMAIN pre.groups :
              IsPrefix(pre.groups[i].children, disk.groups[i].children)
        /\ \A i \in DOMAIN pre.phases :
              pre.phases[i].kind = "Sources" =>
                  IsPrefix(pre.phases[i].files, disk.phases[i].files)

\* C5 (amended): every group that existed and every build-phase file list keep
\* their elements, contiguous and in order; new lines of a file list and new
\* children written by add_missing_files.py come after them, new children written
\* by add_files_v2.py come before them.
C5_SupersetInOrder ==
    Done =>
        /\ Len(disk.groups) >= Len(pre.groups)
        /\ Len(disk.phases) = Len(pre.phases)
        /\ \A i \in DOMAIN pre.groups :
              /\ disk.groups[i].id = pre.groups[i].id
              /\ script = "v1" =>
                    IsPrefix(pre.groups[i].children, disk.groups[i].children)
              /\ script = "v2" =>
                    IsSuffix(pre.groups[i].children, disk.groups[i].children)
        /\ \A i \in DOMAIN pre.phases :
              IsPrefix(pre.phases[i].files, disk.phases[i].files)

\* C5 witness: add_files_v2.py gave new children to a group that had children and
\* new lines to a file list that had lines.
C5_Witness ==
    /\ Done
    /\ writes = 1
    /\ script = "v2"
    /\ \E i \in DOMAIN pre.groups :
          /\ pre.groups[i].children # <<>>
          /\ Len(disk.groups[i].children) > Len(pre.groups[i].children)
    /\ \E i \in DOMAIN pre.phases :
          /\ pre.phases[i].files # <<>>
          /\ Len(disk.phases[i].files) > Len(pre.phases[i].files)

----------------------------------------------------------------------------
(* C6 - linkage of a new group *)

\* C6: in every file a run wrote (read with all section end markers), each group
\* the run created is a child of exactly one group.
C6_NewGroupLinkedOnce ==
    (Done /\ writes = 1 /\ MarkersPresent(pre)) =>
        \A g \in Range(new_group_defs) : Cardinality(ChildSlots(disk, g.id)) = 1

----------------------------------------------------------------------------
(* C7 - a target group that does not exist *)

\* C7: on a Document with all section end markers and the Sources list as its
\* only file list, when a planned file targets a group id that is neither a group
\* of the file read nor a group this run creates, the run writes, the written
\* file holds the FileReference, the BuildFileRecord and the Sources line of that
\* file, no group lists the FileReference id, and a warning names the group.
C7_MissingGroupIsPartial ==
    (Done /\ MarkersPresent(pre) /\ OnlySourcesList(pre)) =>
        \A a \in Range(group_additions) :
            (a.key \notin GroupIds(pre)
             /\ a.key \notin {g.id : g \in Range(new_group_defs)}) =>
                /\ writes = 1
                /\ [kind |-> "group", group |-> a.key] \in Range(warnings)
                /\ \A l \in Range(a.lines) :
                      /\ \E r \in Range(disk.refs) : r.id = l.id
                      /\ \E b \in Range(disk.build) : b.ref = l.id
                      /\ \E i \in DOMAIN disk.phases :
                            /\ disk.phases[i].kind = "Sources"
                            /\ \E f \in Range(disk.phases[i].files) :
                                  \E b \in Range(build_entries) :
                                      b.ref = l.id /\ f.id = b.id
                      /\ ChildSlots(disk, l.id) = {}

----------------------------------------------------------------------------
(* C8 - the empty plan *)

\* C8: when the name of every entry already occurs in the file read, the run
\* writes nothing and the file is unchanged; otherwise the file is written
\* exactly once, by the last step of the run.
C8_WriteOnlyWhenPlanned ==
    /\ (runs > 0 /\ pc # "done") => (writes = 0 /\ disk = pre)
    /\ Done =>
          IF \A n \in EntryNames(script, cfg) : InContent(n, pre)
          THEN writes = 0 /\ disk = pre /\ build_entries = <<>>
          ELSE writes = 1 /\ disk = content

\* C8 witness: a run whose entries all existed ended without writing.
C8_Witness ==
    /\ Done
    /\ EntryNames(script, cfg) # {}
    /\ \A n \in EntryNames(script, cfg) : InContent(n, pre)
    /\ Len(skipped) = EntryCount(script, cfg)
    /\ writes = 0

----------------------------------------------------------------------------
(* C9 - two entries with the same display name *)

\* C9: a run plans at most one FileReference and one BuildFileRecord per display
\* name.
C9_OnePerDisplayName ==
    Done =>
        \A i, j \in DOMAIN build_entries :
            build_entries[i].name = build_entries[j].name => i = j

----------------------------------------------------------------------------
(* C10 - insertion confined to the targeted group *)

\* C10: a run (on a Document with all section end markers) changes the child
\* sequence of a group only if the id of that group equals a group id the run
\* targets.
C10_ConfinedToTarget ==
    (Done /\ writes = 1 /\ MarkersPresent(pre)) =>
        \A i \in DOMAIN disk.groups :
            (i <= Len(pre.groups) /\ disk.groups[i].children # pre.groups[i].children)
                => disk.groups[i].id \in TargetIds

====
